---- MODULE Spec2Model ----
(***************************************************************************)
(* Model of fuse3's kernel connection (src/raw/connection.rs) and of the   *)
(* helpers it uses (src/helper.rs): acquisition of the /dev/fuse handle    *)
(* (FuseConnection::new, FuseConnection::new_with_unprivileged), the       *)
(* non-blocking conversion, and the gated, readiness-driven read/write.    *)
(* Both runtime back ends are modelled; `variant` is the build's choice.   *)
(***************************************************************************)
EXTENDS Integers, Sequences, FiniteSets, TLC

\* ------------------------------------------------------------- bounds
\* Number of tasks that call read()/write() on the one Connection.
NCallers == 2
\* Largest caller buffer (bytes) and largest kernel message / accepted count.
MaxLen == 1

\* Longest run of nix errors handed to the error mapping.
MaxErrs == 2
\* Largest value of a permission's low bits tried from either end of 0..0o7777.
MaxLowPerm == 7

Callers == 1..NCallers
BufLens == 0..MaxLen

\* nix::cmsg_space!([RawFd; 1]): room for one transferred descriptor.
CmsgFds == 1

\* ------------------------------------------------------------- errors
\* nix::Error as the code's match sees it: Sys(errno) for a small set of
\* errno values, and the three non-errno variants.
Errnos == {"EAGAIN", "EINVAL", "EIO", "ENOENT", "EACCES"}
NixSys(e) == "Sys_" \o e
NixErrors == {NixSys(e) : e \in Errnos}
               \cup {"UnsupportedOperation", "InvalidPath", "InvalidUtf8"}

\* std::io::Error::from_raw_os_error(errno).kind()
RawOsErrorKind(nixerr) ==
    CASE nixerr = "Sys_EAGAIN" -> "WouldBlock"
      [] nixerr = "Sys_EINVAL" -> "InvalidInput"
      [] nixerr = "Sys_ENOENT" -> "NotFound"
      [] nixerr = "Sys_EACCES" -> "PermissionDenied"
      [] OTHER -> "Other"

\* A mapping that loses the errno: every Sys error becomes kind Other.
io_error_from_nix_error_Opaque(err) ==
    IF err \in {"InvalidPath", "InvalidUtf8"} THEN "InvalidInput" ELSE "Other"

\* helper.rs io_error_from_nix_error: the kind of the io::Error produced.
io_error_from_nix_error(err) ==
    CASE err = "UnsupportedOperation" -> "Other"
      [] err \in {"InvalidPath", "InvalidUtf8"} -> "InvalidInput"
      [] OTHER -> RawOsErrorKind(err)

\* ------------------------------------------------------------- results
\* io::Result<usize> of a read()/write() call.  tag: "none" (no result yet),
\* "ok" (n bytes) or "err" (kind; nix is the nix error it was mapped from,
\* "none" when the error is not a syscall's); from: "sys" when the value is
\* a syscall's outcome, "ready" when it is the readiness wait's failure.
NoResult == [tag |-> "none", n |-> 0, kind |-> "none", nix |-> "none", from |-> "none"]
OkResult(k) == [tag |-> "ok", n |-> k, kind |-> "none", nix |-> "none", from |-> "sys"]
SysErr(nixerr) ==
    [tag |-> "err", n |-> 0, kind |-> io_error_from_nix_error(nixerr),
     nix |-> nixerr, from |-> "sys"]
ReadyErr == [tag |-> "err", n |-> 0, kind |-> "Other", nix |-> "none", from |-> "ready"]

VARIABLES
    variant,        \* "tokio" | "async_std": which back end the build selects
    apc,            \* position of the acquisition call
    path,           \* "none" | "new" | "unpriv": the acquisition operation called
    openfds,        \* descriptors open in this process: subset of {"fd0","fd1","fuse"}
    flags,          \* status flags of the fuse handle
    registered,     \* handle registered with the reactor (AsyncFd / Async)
    conn,           \* a FuseConnection value exists
    aerr,           \* error returned by the acquisition call, "none" if none
    helper,         \* "none" | "spawned" | "exit_ok" | "exit_fail"
    spawns,         \* number of helper processes spawned
    recvAttempted,  \* recvmsg has been called on fd1
    rmsg,           \* outcome of recvmsg
    handle,         \* descriptor taken as the fuse handle, "none" if none
    pc,             \* per caller: "idle" | "lock" | "ready" | "sys" | "done" | "abandoned"
    op,             \* per caller: "none" | "read" | "write"
    buflen,         \* per caller: length of the buffer passed
    guard,          \* per caller: the mutex whose guard it holds, "none" if none
    locked,         \* per mutex ("read", "write"): locked
    rdy,            \* per direction: readiness token delivered by the reactor
    rchan,          \* kernel side, inbound: "empty" | "msg" | "closed" | "failed"
    res,            \* per caller: the call's result
    retried,        \* per caller: the call in progress has seen would-block
    eof,            \* per caller: its last read syscall was told of orderly closure
    lastsys,        \* per caller: raw outcome of the last syscall of its call
    closes,         \* number of close() calls made on the Connection's handle
    reactorBlocking,\* blocking operations that ran on the scheduler's thread
    setflCalled,    \* set_fd_non_blocking has issued fcntl(F_SETFL)
    ein,            \* error mapping: the nix errors handed to it, in order
    eout,           \* error mapping: kinds produced so far
    mkind,          \* mode helpers: file kind
    mperm,          \* mode helpers: permission value given (u16)
    mmode,          \* mode helpers: mode_from_kind_and_perm's result, -1 before
    mback           \* mode helpers: perm_from_mode_and_kind's result, -1 before

auxVars == <<closes, reactorBlocking, setflCalled>>
acqVars == <<variant, apc, path, openfds, flags, registered, conn, aerr,
             helper, spawns, recvAttempted, rmsg, handle,
             closes, reactorBlocking, setflCalled>>
ioVars == <<pc, op, buflen, guard, locked, rdy, rchan, res, retried, eof, lastsys>>
pureVars == <<ein, eout, mkind, mperm, mmode, mback>>
vars == <<variant, apc, path, openfds, flags, registered, conn, aerr,
          helper, spawns, recvAttempted, rmsg, handle,
          closes, reactorBlocking, setflCalled,
          pc, op, buflen, guard, locked, rdy, rchan, res, retried, eof, lastsys,
          ein, eout, mkind, mperm, mmode, mback>>

NoMsg == [status |-> "none", cmsg |-> "none", fds |-> <<>>]
\* No syscall issued yet in the call.
NoRaw == [ok |-> FALSE, n |-> 0, nix |-> "none"]

\* The error mapping of helper.rs is not in use.
ErrIdle ==
    /\ ein = <<>>
    /\ eout = <<>>

\* The mode helpers of helper.rs are not in use.
ModeIdle ==
    /\ mkind = "none"
    /\ mperm = 0
    /\ mmode = -1
    /\ mback = -1

\* The helper functions of helper.rs are not in use.
PureIdle == ErrIdle /\ ModeIdle

\* No call of read()/write() has been made.
IoIdle ==
    /\ pc = [c \in Callers |-> "idle"]
    /\ op = [c \in Callers |-> "none"]
    /\ buflen = [c \in Callers |-> 0]
    /\ guard = [c \in Callers |-> "none"]
    /\ locked = [g \in {"read", "write"} |-> FALSE]
    /\ rdy = [d \in {"read", "write"} |-> FALSE]
    /\ rchan = "empty"
    /\ res = [c \in Callers |-> NoResult]
    /\ retried = [c \in Callers |-> FALSE]
    /\ eof = [c \in Callers |-> FALSE]
    /\ lastsys = [c \in Callers |-> NoRaw]

\* No acquisition has been started.
AcqIdle ==
    /\ apc = "start"
    /\ path = "none"
    /\ openfds = {}
    /\ flags = {}
    /\ registered = FALSE
    /\ conn = FALSE
    /\ aerr = "none"
    /\ helper = "none"
    /\ spawns = 0
    /\ recvAttempted = FALSE
    /\ rmsg = NoMsg
    /\ handle = "none"
    /\ closes = 0
    /\ reactorBlocking = {}
    /\ setflCalled = FALSE

Init ==
    /\ variant \in {"tokio", "async_std"}
    /\ AcqIdle
    /\ IoIdle
    /\ PureIdle

\* ------------------------------------------------------------- acquisition
\* Status flags of a freshly opened /dev/fuse descriptor (opened read+write).
OpenFlags == {"O_RDWR", "O_LARGEFILE"}
\* Flags nix's OFlag knows (from_bits_truncate drops every other bit).
KnownOFlags == {"O_RDWR", "O_APPEND", "O_ASYNC", "O_DIRECT", "O_NOATIME", "O_NONBLOCK"}
\* Flags that fcntl(F_SETFL) changes; it ignores the access mode and the rest.
SettableFlags == {"O_APPEND", "O_ASYNC", "O_DIRECT", "O_NOATIME", "O_NONBLOCK"}

\* A flag word that is the non-blocking flag alone.
NonBlockFlags_Only(f) == {"O_NONBLOCK"}

\* The flag word without the non-blocking flag OR-ed in.
NonBlockFlags_Forgot(f) == f \cap KnownOFlags

\* connection.rs:159  OFlag::from_bits_truncate(flags) | OFlag::O_NONBLOCK
NonBlockFlags(f) == (f \cap KnownOFlags) \cup {"O_NONBLOCK"}

\* fcntl(fd, F_SETFL(new)) applied to a descriptor whose flags are cur.
SetFl(cur, new) == (cur \ SettableFlags) \cup (new \cap SettableFlags)

\* set_fd_non_blocking: outcome is which fcntl fails, if any; setfl tells
\* whether fcntl(F_SETFL) was issued.
set_fd_non_blocking(cur, outcome) ==
    CASE outcome = "getfl_fail" -> [ok |-> FALSE, flags |-> cur, setfl |-> FALSE]
      [] outcome = "setfl_fail" -> [ok |-> FALSE, flags |-> cur, setfl |-> TRUE]
      [] OTHER -> [ok |-> TRUE, flags |-> SetFl(cur, NonBlockFlags(cur)), setfl |-> TRUE]

\* The step after the handle is in hand: tokio converts it itself
\* (connection.rs:49, 146), async-std goes straight to Async::new.
AfterHandle == IF variant = "tokio" THEN "setnb" ELSE "wrap"

Fail(msg) ==
    /\ apc' = "err"
    /\ aerr' = msg

\* Where the code runs a blocking operation of new_with_unprivileged: the
\* spawn (connection.rs:92) and the receive (:108) are closures handed to
\* spawn_blocking; child.wait() (:101) is called in the async fn itself.
ExecContext(step) == IF step \in {"spawn", "recv"} THEN "blocking" ELSE "reactor"

\* A blocking operation runs: it is recorded when it ran on the scheduler.
Ran(step) ==
    reactorBlocking' =
        reactorBlocking \cup (IF ExecContext(step) = "reactor" THEN {step} ELSE {})

\* new(): OpenOptions::new().write(true).read(true).open("/dev/fuse")
New_Open ==
    /\ apc = "start"
    /\ path' = "new"
    /\ \/ /\ Fail("open")
          /\ UNCHANGED <<openfds, handle, flags>>
       \/ /\ openfds' = openfds \cup {"fuse"}
          /\ handle' = "fuse"
          /\ flags' = OpenFlags
          /\ apc' = AfterHandle
          /\ UNCHANGED aerr
    /\ UNCHANGED <<variant, registered, conn, helper, spawns, recvAttempted, rmsg>>
    /\ UNCHANGED <<ioVars, pureVars>>
    /\ UNCHANGED auxVars

\* new_with_unprivileged(): socket::socketpair(Unix, SeqPacket, None, empty)
Socketpair ==
    /\ apc = "start"
    /\ path' = "unpriv"
    /\ \/ /\ Fail("socketpair")
          /\ UNCHANGED openfds
       \/ /\ openfds' = openfds \cup {"fd0", "fd1"}
          /\ apc' = "which"
          /\ UNCHANGED aerr
    /\ UNCHANGED <<variant, flags, registered, conn, helper, spawns,
                   recvAttempted, rmsg, handle>>
    /\ UNCHANGED <<ioVars, pureVars>>
    /\ UNCHANGED auxVars

\* which::which("fusermount3")
Which ==
    /\ apc = "which"
    /\ \/ Fail("find fusermount binary failed")
       \/ /\ apc' = "spawn"
          /\ UNCHANGED aerr
    /\ UNCHANGED <<variant, path, openfds, flags, registered, conn, helper,
                   spawns, recvAttempted, rmsg, handle>>
    /\ UNCHANGED <<ioVars, pureVars>>
    /\ UNCHANGED auxVars

\* A sequencing that starts the receive while the helper is still running.
AfterSpawn_Recv == "recv"

\* connection.rs:99-101: the statement after the awaited spawn is
\* child.wait(); the receive closure (:108) is built only after it.
AfterSpawn == "wait"

\* spawn_blocking(|| Command::new(..).env(..).args(..).spawn()).await
SpawnHelper ==
    /\ apc = "spawn"
    /\ \/ /\ Fail("spawn failed")
          /\ UNCHANGED <<helper, spawns>>
       \/ /\ helper' = "spawned"
          /\ spawns' = spawns + 1
          /\ apc' = AfterSpawn
          /\ UNCHANGED aerr
    /\ UNCHANGED <<variant, path, openfds, flags, registered, conn,
                   recvAttempted, rmsg, handle>>
    /\ UNCHANGED <<ioVars, pureVars>>
    /\ Ran("spawn")
    /\ UNCHANGED <<closes, setflCalled>>

\* An exit check that lets every exit status through.
ExitAccepted_Any(status) == status \in {"success", "failure"}

\* connection.rs:101  child.wait()?.success()
ExitAccepted(status) == status = "success"

\* child.wait()? and the exit-status check
WaitHelper ==
    /\ apc = "wait"
    /\ \/ /\ Fail("wait failed")
          /\ UNCHANGED helper
       \/ \E status \in {"success", "failure"} :
            /\ helper' = IF status = "success" THEN "exit_ok" ELSE "exit_fail"
            /\ IF ExitAccepted(status)
                 THEN apc' = "recv" /\ UNCHANGED aerr
                 ELSE Fail("fusermount run failed")
    /\ UNCHANGED <<variant, path, openfds, flags, registered, conn, spawns,
                   recvAttempted, rmsg, handle>>
    /\ UNCHANGED <<ioVars, pureVars>>
    /\ Ran("wait")
    /\ UNCHANGED <<closes, setflCalled>>

\* What recvmsg(fd1, ..) can produce: a failure, or a message whose first
\* control message is absent, is not SCM_RIGHTS, or is SCM_RIGHTS carrying
\* up to CmsgFds descriptors.
FdLists == {[i \in 1..k |-> "fuse"] : k \in 0..CmsgFds}
RecvOutcomes ==
    {[status |-> "err", cmsg |-> "none", fds |-> <<>>],
     [status |-> "ok", cmsg |-> "none", fds |-> <<>>],
     [status |-> "ok", cmsg |-> "ScmCredentials", fds |-> <<>>]}
    \cup {[status |-> "ok", cmsg |-> "ScmRights", fds |-> l] : l \in FdLists}

\* Descriptors that a received message installs in this process.
Installed(m) ==
    IF m.status = "ok" /\ m.cmsg = "ScmRights"
      THEN {m.fds[i] : i \in 1..Len(m.fds)} ELSE {}

\* An extraction that does not look at the descriptor list's length.
ExtractFd_NoEmptyCheck(m) ==
    CASE m.status = "err" -> [ok |-> FALSE, fd |-> "none", err |-> "recvmsg failed"]
      [] m.cmsg # "ScmRights" -> [ok |-> FALSE, fd |-> "none", err |-> "get fuse fd failed"]
      [] OTHER -> [ok |-> TRUE,
                   fd |-> IF Len(m.fds) = 0 THEN "invalid" ELSE m.fds[1],
                   err |-> "none"]

\* connection.rs:116-133: the body of the receive closure.
ExtractFd(m) ==
    CASE m.status = "err" -> [ok |-> FALSE, fd |-> "none", err |-> "recvmsg failed"]
      [] m.cmsg # "ScmRights" -> [ok |-> FALSE, fd |-> "none", err |-> "get fuse fd failed"]
      [] Len(m.fds) = 0 -> [ok |-> FALSE, fd |-> "none", err |-> "no fuse fd"]
      [] OTHER -> [ok |-> TRUE, fd |-> m.fds[1], err |-> "none"]

\* spawn_blocking(|| { recvmsg(fd1, ..) ... }).await
RecvFd ==
    /\ apc = "recv"
    /\ recvAttempted' = TRUE
    /\ \E m \in RecvOutcomes :
         /\ rmsg' = m
         /\ openfds' = openfds \cup Installed(m)
         /\ IF ExtractFd(m).ok
              THEN /\ handle' = ExtractFd(m).fd
                   /\ flags' = OpenFlags
                   /\ apc' = "close0"
                   /\ UNCHANGED aerr
              ELSE /\ Fail(ExtractFd(m).err)
                   /\ UNCHANGED <<handle, flags>>
    /\ UNCHANGED <<variant, path, registered, conn, helper, spawns>>
    /\ UNCHANGED <<ioVars, pureVars>>
    /\ Ran("recv")
    /\ UNCHANGED <<closes, setflCalled>>

\* unistd::close(fd): on failure the descriptor may or may not have been
\* released (the kernel's choice); on success it is released.
CloseSock(fd, next) ==
    \/ /\ openfds' = openfds \ {fd}
       /\ apc' = next
       /\ UNCHANGED aerr
    \/ /\ Fail("close failed")
       /\ openfds' \in {openfds, openfds \ {fd}}

\* connection.rs:138  unistd::close(fd0)
Close0 ==
    /\ apc = "close0"
    /\ CloseSock("fd0", "close1")
    /\ UNCHANGED <<variant, path, flags, registered, conn, helper, spawns,
                   recvAttempted, rmsg, handle>>
    /\ UNCHANGED <<ioVars, pureVars>>
    /\ UNCHANGED auxVars

\* connection.rs:142  unistd::close(fd1)
Close1 ==
    /\ apc = "close1"
    /\ CloseSock("fd1", AfterHandle)
    /\ UNCHANGED <<variant, path, flags, registered, conn, helper, spawns,
                   recvAttempted, rmsg, handle>>
    /\ UNCHANGED <<ioVars, pureVars>>
    /\ UNCHANGED auxVars

\* Self::set_fd_non_blocking(fd)?  (tokio back end only)
SetNonBlocking ==
    /\ apc = "setnb"
    /\ \E outcome \in {"getfl_fail", "setfl_fail", "ok"} :
         /\ flags' = set_fd_non_blocking(flags, outcome).flags
         /\ setflCalled' = set_fd_non_blocking(flags, outcome).setfl
         /\ IF set_fd_non_blocking(flags, outcome).ok
              THEN apc' = "wrap" /\ UNCHANGED aerr
              ELSE Fail("fcntl failed")
    /\ UNCHANGED <<variant, path, openfds, registered, conn, helper, spawns,
                   recvAttempted, rmsg, handle>>
    /\ UNCHANGED <<ioVars, pureVars>>
    /\ UNCHANGED <<closes, reactorBlocking>>

\* Flags after the wrapper's constructor: async-io's Async::new puts the
\* descriptor in non-blocking mode; tokio's AsyncFd::new leaves flags alone.
WrapFlags(f) == IF variant = "async_std" THEN SetFl(f, f \cup {"O_NONBLOCK"}) ELSE f

\* Ok(Self { fd: AsyncFd::new(fd)? / Async::new(fd)?, read: Mutex, write: Mutex })
Wrap ==
    /\ apc = "wrap"
    /\ \/ /\ Fail("register failed")
          /\ flags' \in {flags, WrapFlags(flags)}
          /\ UNCHANGED <<registered, conn>>
       \/ /\ flags' = WrapFlags(flags)
          /\ registered' = TRUE
          /\ conn' = TRUE
          /\ apc' = "ok"
          /\ UNCHANGED aerr
    /\ UNCHANGED <<variant, path, openfds, helper, spawns, recvAttempted, rmsg, handle>>
    /\ UNCHANGED <<ioVars, pureVars>>
    /\ UNCHANGED auxVars

\* ------------------------------------------------------------- read / write
Dirs == {"read", "write"}

\* Both operations taking the same mutex.
GateOf_Shared(o) == "read"

\* connection.rs:167, 182: read() locks self.read, write() locks self.write.
GateOf(o) == o

\* A lock that is granted whether or not the mutex is held.
CanLock_Always(g) == TRUE

\* futures_util Mutex::lock(): granted only while the mutex is not locked.
CanLock(g) == ~locked[g]

\* Raw outcome of a syscall: Ok(n) or Err(nix error).
RawOk(k) == [ok |-> TRUE, n |-> k, nix |-> "none"]
RawErr(e) == [ok |-> FALSE, n |-> 0, nix |-> NixSys(e)]

\* unistd::read(fd, buf) on the non-blocking handle, by the kernel side's
\* state: nothing queued -> EAGAIN; a message of m bytes -> m, or EINVAL when
\* the buffer is too small for it; orderly closure -> 0; failed -> EIO.
SysReadOutcomes(ch, len) ==
    CASE ch = "empty" -> {RawErr("EAGAIN")}
      [] ch = "msg" -> {IF m <= len THEN RawOk(m) ELSE RawErr("EINVAL") : m \in 1..MaxLen}
      [] ch = "closed" -> {RawOk(0)}
      [] OTHER -> {RawErr("EIO")}

\* unistd::write(fd, buf): the kernel's choice among no room (EAGAIN), an
\* accepted count (a short write is possible) and EINVAL for a reply it rejects.
SysWriteOutcomes(len) ==
    {RawErr("EAGAIN"), RawErr("EINVAL")}
      \cup {RawOk(k) : k \in (IF len = 0 THEN {0} ELSE 1..len)}

SysOutcomes(o, len) ==
    IF o = "read" THEN SysReadOutcomes(rchan, len) ELSE SysWriteOutcomes(len)

\* .map_err(io_error_from_nix_error)
MapErr(raw) == IF raw.ok THEN OkResult(raw.n) ELSE SysErr(raw.nix)

\* A retry filter that loops on every error, not only on would-block.
try_io_RetryOnAnyError(r) ==
    IF r.tag = "err"
      THEN [wouldblock |-> TRUE, result |-> NoResult]
      ELSE [wouldblock |-> FALSE, result |-> r]

\* A retry filter that turns would-block into a zero byte count.
try_io_ZeroOnWouldBlock(r) ==
    IF r.tag = "err" /\ r.kind = "WouldBlock"
      THEN [wouldblock |-> FALSE, result |-> OkResult(0)]
      ELSE [wouldblock |-> FALSE, result |-> r]

\* AsyncFdReadyGuard::try_io / Async::read_with, write_with: a closure result
\* of kind WouldBlock is not handed to the caller, anything else is.
try_io(r) ==
    IF r.tag = "err" /\ r.kind = "WouldBlock"
      THEN [wouldblock |-> TRUE, result |-> NoResult]
      ELSE [wouldblock |-> FALSE, result |-> r]

\* A return that leaks the guard: the mutex stays locked.
Finish_KeepsGate(c, r) ==
    /\ res' = [res EXCEPT ![c] = r]
    /\ pc' = [pc EXCEPT ![c] = "done"]
    /\ buflen' = [buflen EXCEPT ![c] = 0]
    /\ retried' = [retried EXCEPT ![c] = FALSE]
    /\ locked' = locked
    /\ guard' = [guard EXCEPT ![c] = "none"]

\* The call returns r: the guard goes out of scope with it.
Finish(c, r) ==
    /\ res' = [res EXCEPT ![c] = r]
    /\ pc' = [pc EXCEPT ![c] = "done"]
    /\ buflen' = [buflen EXCEPT ![c] = 0]
    /\ retried' = [retried EXCEPT ![c] = FALSE]
    /\ locked' = [locked EXCEPT ![guard[c]] = FALSE]
    /\ guard' = [guard EXCEPT ![c] = "none"]

\* A task calls read(buf) or write(buf) on the Connection.
Call(c) ==
    /\ conn
    /\ pc[c] = "idle"
    /\ \E o \in Dirs, l \in BufLens :
         /\ op' = [op EXCEPT ![c] = o]
         /\ buflen' = [buflen EXCEPT ![c] = l]
    /\ pc' = [pc EXCEPT ![c] = "lock"]
    /\ UNCHANGED <<guard, locked, rdy, rchan, res, retried, eof, lastsys>>
    /\ UNCHANGED <<acqVars, pureVars>>

\* let _guard = self.read.lock().await  /  self.write.lock().await
\* tokio then waits for readiness; async-io's read_with tries the syscall first.
Lock(c) ==
    /\ pc[c] = "lock"
    /\ CanLock(GateOf(op[c]))
    /\ locked' = [locked EXCEPT ![GateOf(op[c])] = TRUE]
    /\ guard' = [guard EXCEPT ![c] = GateOf(op[c])]
    /\ pc' = [pc EXCEPT ![c] = IF variant = "tokio" THEN "ready" ELSE "sys"]
    /\ UNCHANGED <<op, buflen, rdy, rchan, res, retried, eof, lastsys>>
    /\ UNCHANGED <<acqVars, pureVars>>

\* self.fd.readable().await? / writable().await?: resumes with the token set.
AwaitReady(c) ==
    /\ pc[c] = "ready"
    /\ rdy[op[c]]
    /\ pc' = [pc EXCEPT ![c] = "sys"]
    /\ UNCHANGED <<op, buflen, guard, locked, rdy, rchan, res, retried, eof, lastsys>>
    /\ UNCHANGED <<acqVars, pureVars>>

\* The `?` on the readiness wait: its failure ends the call.
AwaitReadyFails(c) ==
    /\ pc[c] = "ready"
    /\ Finish(c, ReadyErr)
    /\ UNCHANGED <<op, rdy, rchan, eof, lastsys>>
    /\ UNCHANGED <<acqVars, pureVars>>

\* Kernel side after a syscall that returned raw: a read that took a message
\* leaves the queue empty or with a further message.
ChanAfter(o, raw) ==
    rchan' \in IF o = "read" /\ raw.ok /\ raw.n > 0 THEN {"empty", "msg"} ELSE {rchan}

\* try_io(|fd| unistd::read/write(fd, buf).map_err(..)): would-block clears
\* the readiness token and loops; any other outcome is returned.
Syscall(c) ==
    /\ pc[c] = "sys"
    /\ \E raw \in SysOutcomes(op[c], buflen[c]) :
         /\ eof' = [eof EXCEPT ![c] = (op[c] = "read" /\ rchan = "closed")]
         /\ lastsys' = [lastsys EXCEPT ![c] = raw]
         /\ ChanAfter(op[c], raw)
         /\ IF try_io(MapErr(raw)).wouldblock
              THEN /\ rdy' = [rdy EXCEPT ![op[c]] = FALSE]
                   /\ retried' = [retried EXCEPT ![c] = TRUE]
                   /\ pc' = [pc EXCEPT ![c] = "ready"]
                   /\ UNCHANGED <<res, locked, guard, buflen>>
              ELSE /\ Finish(c, try_io(MapErr(raw)).result)
                   /\ UNCHANGED rdy
    /\ UNCHANGED op
    /\ UNCHANGED <<acqVars, pureVars>>

\* The caller has taken the result (or has dropped the call's future); the
\* task may call again.
Return(c) ==
    /\ pc[c] \in {"done", "abandoned"}
    /\ pc' = [pc EXCEPT ![c] = "idle"]
    /\ op' = [op EXCEPT ![c] = "none"]
    /\ res' = [res EXCEPT ![c] = NoResult]
    /\ eof' = [eof EXCEPT ![c] = FALSE]
    /\ lastsys' = [lastsys EXCEPT ![c] = NoRaw]
    /\ UNCHANGED <<buflen, retried, guard, locked, rdy, rchan>>
    /\ UNCHANGED <<acqVars, pureVars>>

\* A release that closes the handle twice (as when the wrapper owned it too).
CloseCallsOnDrop_Twice(n) == n + 2

\* Drop for FuseConnection: one unistd::close on the handle; the wrapper
\* (AsyncFd<RawFd> / Async<RawFd>) holds a plain RawFd and closes nothing.
CloseCallsOnDrop(n) == n + 1

\* impl Drop: let _ = unistd::close(self.as_raw_fd()).  It needs the
\* Connection exclusively, so no read()/write() call (which borrows it) is in
\* progress.  The close result is discarded; when close fails the descriptor
\* may or may not have been released.
Drop ==
    /\ conn
    /\ \A c \in Callers : pc[c] \in {"idle", "done", "abandoned"}
    /\ closes' = CloseCallsOnDrop(closes)
    /\ openfds' \in {openfds \ {handle}, openfds}
    /\ conn' = FALSE
    /\ registered' = FALSE
    /\ apc' = "released"
    /\ UNCHANGED <<variant, path, flags, aerr, helper, spawns, recvAttempted,
                   rmsg, handle, reactorBlocking, setflCalled>>
    /\ UNCHANGED <<ioVars, pureVars>>

\* A future that closes the handle when it is dropped.
FutureDropFds_Closes(fds) == fds \ {handle}

\* Dropping the future of read()/write(): it holds &self, the mutex guard and
\* the readiness guard, none of which owns the descriptor.
FutureDropFds(fds) == fds

\* The calling task drops the call's future at one of its await points (the
\* mutex lock or the readiness wait): the guard, if held, is released.
Abandon(c) ==
    /\ pc[c] \in {"lock", "ready"}
    /\ pc' = [pc EXCEPT ![c] = "abandoned"]
    /\ op' = [op EXCEPT ![c] = "none"]
    /\ buflen' = [buflen EXCEPT ![c] = 0]
    /\ retried' = [retried EXCEPT ![c] = FALSE]
    /\ lastsys' = [lastsys EXCEPT ![c] = NoRaw]
    /\ locked' = IF guard[c] = "none" THEN locked
                                      ELSE [locked EXCEPT ![guard[c]] = FALSE]
    /\ guard' = [guard EXCEPT ![c] = "none"]
    /\ openfds' = FutureDropFds(openfds)
    /\ UNCHANGED <<rdy, rchan, res, eof>>
    /\ UNCHANGED <<variant, apc, path, flags, registered, conn, aerr, helper,
                   spawns, recvAttempted, rmsg, handle, auxVars>>
    /\ UNCHANGED pureVars

\* ------------------------------------------------------------- environment
\* The reactor delivers a readiness event for a direction (possibly spurious).
Notify(d) ==
    /\ conn
    /\ ~rdy[d]
    /\ rdy' = [rdy EXCEPT ![d] = TRUE]
    /\ UNCHANGED <<pc, op, buflen, guard, locked, rchan, res, retried, eof, lastsys>>
    /\ UNCHANGED <<acqVars, pureVars>>

\* The kernel queues a request, or the channel closes or fails.
KernelIn ==
    /\ conn
    /\ rchan \in {"empty", "msg"}
    /\ rchan' \in {"msg", "closed", "failed"} \ {rchan}
    /\ UNCHANGED <<pc, op, buflen, guard, locked, rdy, res, retried, eof, lastsys>>
    /\ UNCHANGED <<acqVars, pureVars>>

Next ==
    \/ New_Open
    \/ Socketpair
    \/ Which
    \/ SpawnHelper
    \/ WaitHelper
    \/ RecvFd
    \/ Close0
    \/ Close1
    \/ SetNonBlocking
    \/ Wrap
    \/ \E c \in Callers : Call(c)
    \/ \E c \in Callers : Lock(c)
    \/ \E c \in Callers : AwaitReady(c)
    \/ \E c \in Callers : AwaitReadyFails(c)
    \/ \E c \in Callers : Syscall(c)
    \/ \E c \in Callers : Return(c)
    \/ \E c \in Callers : Abandon(c)
    \/ Drop
    \/ \E d \in Dirs : Notify(d)
    \/ KernelIn

Spec == Init /\ [][Next]_vars

\* set_fd_non_blocking on a descriptor received from the helper, which opened
\* it with flags of its own choosing: the state of new_with_unprivileged
\* (tokio back end) at connection.rs:146, for every set of settable flags.
FlagInit ==
    /\ variant = "tokio"
    /\ apc = "setnb"
    /\ path = "unpriv"
    /\ openfds = {"fuse"}
    /\ flags \in {OpenFlags \cup f : f \in SUBSET SettableFlags}
    /\ registered = FALSE
    /\ conn = FALSE
    /\ aerr = "none"
    /\ helper = "exit_ok"
    /\ spawns = 1
    /\ recvAttempted = TRUE
    /\ rmsg = [status |-> "ok", cmsg |-> "ScmRights", fds |-> <<"fuse">>]
    /\ handle = "fuse"
    /\ closes = 0
    /\ reactorBlocking = {"wait"}
    /\ setflCalled = FALSE
    /\ IoIdle
    /\ PureIdle

FlagNext ==
    \/ SetNonBlocking
    \/ Wrap

FlagSpec == FlagInit /\ [][FlagNext]_vars

\* ------------------------------------------------------------- helper.rs
\* Runs of nix errors handed to io_error_from_nix_error, one after another.
ErrSeqs == UNION {[1..n -> NixErrors] : n \in 1..MaxErrs}

ErrInit ==
    /\ variant \in {"tokio", "async_std"}
    /\ AcqIdle
    /\ IoIdle
    /\ ModeIdle
    /\ ein \in ErrSeqs
    /\ eout = <<>>

\* io_error_from_nix_error(err) for the next error of the run.
MapError ==
    /\ Len(eout) < Len(ein)
    /\ eout' = Append(eout, io_error_from_nix_error(ein[Len(eout) + 1]))
    /\ UNCHANGED <<ein, mkind, mperm, mmode, mback>>
    /\ UNCHANGED <<acqVars, ioVars>>

ErrNext == MapError

ErrSpec == ErrInit /\ [][ErrNext]_vars

\* crate::FileType
FileTypes == {"NamedPipe", "CharDevice", "BlockDevice", "Directory",
              "RegularFile", "Symlink", "Socket"}

\* mode_t::from(kind): the S_IF* type bits of the kind (octal 010000,
\* 020000, 060000, 040000, 0100000, 0120000, 0140000).
KindBits(kind) ==
    CASE kind = "NamedPipe" -> 4096
      [] kind = "CharDevice" -> 8192
      [] kind = "BlockDevice" -> 24576
      [] kind = "Directory" -> 16384
      [] kind = "RegularFile" -> 32768
      [] kind = "Symlink" -> 40960
      [] OTHER -> 49152

\* u32 | u32
RECURSIVE BitOr(_, _)
BitOr(a, b) ==
    IF a = 0 THEN b
    ELSE IF b = 0 THEN a
    ELSE (IF a % 2 = 1 \/ b % 2 = 1 THEN 1 ELSE 0) + 2 * BitOr(a \div 2, b \div 2)

\* u32 ^ u32
RECURSIVE BitXor(_, _)
BitXor(a, b) ==
    IF a = 0 THEN b
    ELSE IF b = 0 THEN a
    ELSE (IF a % 2 # b % 2 THEN 1 ELSE 0) + 2 * BitXor(a \div 2, b \div 2)

\* x as u16
AsU16(x) == x % 65536

\* helper.rs:31  mode_t::from(kind) | perm as u32
mode_from_kind_and_perm(kind, perm) == BitOr(KindBits(kind), perm)

\* A conversion that truncates the mode and leaves the type bits in.
perm_from_mode_and_kind_NoStrip(kind, mode) == AsU16(mode)

\* helper.rs:36  (mode ^ mode_t::from(kind)) as u16
perm_from_mode_and_kind(kind, mode) == AsU16(BitXor(mode, KindBits(kind)))

\* u16 permission values tried: every value of the four high bits (the
\* bits the S_IF* constants use) with low bits taken from both ends of
\* 0..0o7777.
Perms ==
    {hi * 4096 + lo : hi \in 0..15,
                      lo \in (0..MaxLowPerm) \cup {4095 - l : l \in 0..MaxLowPerm}}

ModeInit ==
    /\ variant \in {"tokio", "async_std"}
    /\ AcqIdle
    /\ IoIdle
    /\ ErrIdle
    /\ mkind \in FileTypes
    /\ mperm \in Perms
    /\ mmode = -1
    /\ mback = -1

\* let mode = mode_from_kind_and_perm(kind, perm)
ModeFrom ==
    /\ mmode = -1
    /\ mmode' = mode_from_kind_and_perm(mkind, mperm)
    /\ UNCHANGED <<ein, eout, mkind, mperm, mback>>
    /\ UNCHANGED <<acqVars, ioVars>>

\* let back = perm_from_mode_and_kind(kind, mode)
PermFrom ==
    /\ mmode # -1
    /\ mback = -1
    /\ mback' = perm_from_mode_and_kind(mkind, mmode)
    /\ UNCHANGED <<ein, eout, mkind, mperm, mmode>>
    /\ UNCHANGED <<acqVars, ioVars>>

ModeNext ==
    \/ ModeFrom
    \/ PermFrom

ModeSpec == ModeInit /\ [][ModeNext]_vars

\* The positions of the bits set in n (0 <= n < 2^31).
Bits(n) == {i \in 0..30 : (n \div 2^i) % 2 = 1}

\* ------------------------------------------------------------- scheduling
\* The reactor reports the handle readable while something is there to read.
ReadableEvent == rchan # "empty" /\ Notify("read")

\* Scheduling: a readable handle's event is eventually delivered, a task
\* whose readiness wait can resume is eventually polled, and a syscall that
\* was entered completes.
FairSpec ==
    /\ Spec
    /\ WF_vars(ReadableEvent)
    /\ \A c \in Callers : WF_vars(AwaitReady(c)) /\ WF_vars(Syscall(c))

\* ------------------------------------------------------------- claims
ProgressStep(c) == Lock(c) \/ AwaitReady(c) \/ Syscall(c)

\* C1: in new_with_unprivileged, once the socket pair exists, both of its
\* descriptors are closed when the call has returned, on every exit path.
C1_SocketsClosedOnReturn ==
    (path = "unpriv" /\ aerr # "socketpair" /\ apc \in {"ok", "err"})
        => ({"fd0", "fd1"} \cap openfds = {})

\* C2: per direction at most one syscall is in flight and at most one caller
\* holds the gate; a caller with a syscall in flight holds its direction's gate.
C2_OneSyscallPerDirection ==
    /\ \A d \in Dirs :
         /\ Cardinality({c \in Callers : pc[c] = "sys" /\ op[c] = d}) <= 1
         /\ Cardinality({c \in Callers : guard[c] = d}) <= 1
    /\ \A c \in Callers :
         pc[c] = "sys" => (guard[c] = op[c] /\ locked[op[c]])

C2_Witness ==
    \E c1, c2 \in Callers :
        /\ c1 # c2
        /\ op[c1] = "read" /\ pc[c1] = "sys"
        /\ op[c2] = "read" /\ pc[c2] = "lock"

\* C3: a call is held up only by its own direction: whenever no other call of
\* the same direction is past the gate and (if it waits for readiness) its own
\* direction's token is set, the call can take its next step, whatever calls of
\* the other direction hold or wait for; a gate is only ever held by a call of
\* its own direction.
C3_DirectionsIndependent ==
    /\ \A c \in Callers : guard[c] # "none" => guard[c] = op[c]
    /\ \A d \in Dirs : locked[d] <=> (\E c \in Callers : guard[c] = d)
    /\ \A c \in Callers :
         ( /\ pc[c] \in {"lock", "ready", "sys"}
           /\ pc[c] = "lock" =>
                ~\E c2 \in Callers \ {c} : op[c2] = op[c] /\ pc[c2] \in {"ready", "sys"}
           /\ pc[c] = "ready" => rdy[op[c]] )
         => ENABLED ProgressStep(c)

C3_Witness ==
    \E r, w \in Callers :
        /\ op[r] = "read" /\ pc[r] = "ready" /\ guard[r] = "read" /\ ~rdy["read"]
        /\ op[w] = "write" /\ pc[w] = "sys" /\ guard[w] = "write"

\* C4: an acquisition ends either with a Connection whose handle is open,
\* non-blocking and registered, or with an error and no Connection; a
\* Connection exists only after a successful acquisition, and every call of
\* read()/write() runs on a non-blocking handle.
C4_ConnectionIsNonBlocking ==
    /\ apc = "ok" =>
         /\ conn /\ aerr = "none" /\ registered
         /\ handle \in openfds
         /\ "O_NONBLOCK" \in flags
    /\ apc = "err" => (~conn /\ ~registered /\ aerr # "none")
    /\ conn => apc = "ok"
    /\ \A c \in Callers :
         pc[c] \in {"lock", "ready", "sys"} => (conn /\ "O_NONBLOCK" \in flags)

C4_Witness ==
    /\ variant = "tokio" /\ path = "unpriv" /\ apc = "ok"
    /\ \E c \in Callers : pc[c] = "sys"

\* C5: after a failed acquisition the kernel handle, if it had been obtained,
\* has been closed again.
C5_HandleClosedAfterFailure ==
    apc = "err" => "fuse" \notin openfds

\* C6: a helper that exits with a non-success status ends the call with
\* "fusermount run failed": one spawn only, no receive attempted, no
\* descriptor received or stored, no Connection.
C6_HelperFailureIsFatal ==
    helper = "exit_fail" =>
        /\ apc = "err" /\ aerr = "fusermount run failed"
        /\ spawns = 1
        /\ ~recvAttempted /\ rmsg = NoMsg
        /\ handle = "none" /\ "fuse" \notin openfds
        /\ ~conn

C6_Witness == helper = "exit_fail" /\ apc = "err"

\* C7: after a successful helper exit, a failed receive, a first control
\* message that is absent or not a descriptor transfer, or an empty descriptor
\* list ends the call with an error, no handle and no Connection; a handle is
\* taken only from a non-empty list, and it is the list's first descriptor.
C7_ReceiveFailuresAreFatal ==
    (path = "unpriv" /\ recvAttempted) =>
        LET bad == \/ rmsg.status = "err"
                   \/ rmsg.cmsg # "ScmRights"
                   \/ Len(rmsg.fds) = 0
        IN /\ helper = "exit_ok"
           /\ bad => /\ apc = "err" /\ ~conn /\ handle = "none"
                     /\ aerr \in {"recvmsg failed", "get fuse fd failed", "no fuse fd"}
           /\ handle # "none" => (~bad /\ handle = rmsg.fds[1])
           /\ ~bad => handle = rmsg.fds[1]

C7_Witness ==
    /\ recvAttempted /\ rmsg.status = "ok" /\ rmsg.cmsg = "ScmRights"
    /\ Len(rmsg.fds) = 0
    /\ apc = "err" /\ aerr = "no fuse fd"

\* C8: no read()/write() call returns would-block: a returned value is a
\* syscall outcome other than EAGAIN or the readiness wait's own failure; a
\* syscall that does not return to the caller sends the call back to the
\* readiness wait with the token cleared and the gate still held; a read
\* syscall on an empty channel never returns to the caller.
C8_WouldBlockNeverReturned ==
    /\ [](\A c \in Callers : pc[c] = "done" =>
            /\ res[c].kind # "WouldBlock"
            /\ res[c].nix # "Sys_EAGAIN"
            /\ (res[c].from = "sys" \/ res[c] = ReadyErr))
    /\ [][\A c \in Callers : pc[c] = "sys" =>
            /\ pc'[c] = "ready" =>
                 /\ ~rdy'[op[c]] /\ retried'[c]
                 /\ guard'[c] = guard[c] /\ res'[c] = NoResult
            /\ (op[c] = "read" /\ rchan = "empty" /\ pc'[c] # "sys") => pc'[c] = "ready"
            /\ pc'[c] = "done" => res'[c].from = "sys"]_vars

C8_Witness ==
    \E c \in Callers :
        pc[c] = "ready" /\ retried[c] /\ ~rdy[op[c]] /\ guard[c] = op[c]

\* C9: a finished read() has returned Ok(0) exactly when its read syscall was
\* told of orderly closure.
C9_ZeroIffClosure ==
    \A c \in Callers :
        (pc[c] = "done" /\ op[c] = "read") =>
            ((res[c].tag = "ok" /\ res[c].n = 0) <=> eof[c])

C9_Witness ==
    \E c \in Callers :
        pc[c] = "done" /\ op[c] = "read" /\ res[c] = OkResult(0) /\ eof[c]

\* C10: a write() with an empty buffer is never held up: it is not found
\* waiting for a write gate that another call holds, nor for write-readiness.
C10_EmptyWriteNeverWaits ==
    \A c \in Callers :
        (op[c] = "write" /\ buflen[c] = 0) =>
            /\ ~(pc[c] = "lock" /\ locked["write"])
            /\ ~(pc[c] = "ready" /\ ~rdy["write"])

\* C11 (as stated): a call issues exactly one syscall: no call that has
\* already issued a syscall has another in flight, every finished call has
\* issued one, and a syscall in flight is covered by its direction's gate.
C11_ExactlyOneSyscall ==
    \A c \in Callers :
        /\ pc[c] = "sys" => (~retried[c] /\ guard[c] = op[c])
        /\ pc[c] = "done" => lastsys[c] # NoRaw

\* C11 (amended): syscalls are issued one at a time under the direction's
\* gate; a syscall is repeated only after it failed with would-block; a call
\* that returns a syscall outcome returns, unchanged, the outcome of the one
\* syscall that did not fail with would-block; a call ended by the readiness
\* wait's failure has issued only would-block syscalls, or none.
C11_OneCompletingSyscall ==
    \A c \in Callers :
        /\ pc[c] = "sys" => (guard[c] = op[c] /\ locked[op[c]])
        /\ retried[c] => (pc[c] \in {"ready", "sys"} /\ lastsys[c] = RawErr("EAGAIN"))
        /\ (pc[c] \in {"lock", "ready", "sys"} /\ ~retried[c]) => lastsys[c] = NoRaw
        /\ (pc[c] = "done" /\ res[c].from = "sys") =>
             /\ lastsys[c] # NoRaw
             /\ lastsys[c] # RawErr("EAGAIN")
             /\ res[c] = MapErr(lastsys[c])
        /\ (pc[c] = "done" /\ res[c].from = "ready") =>
             lastsys[c] \in {NoRaw, RawErr("EAGAIN")}

C11_Witness ==
    \E c \in Callers :
        pc[c] = "sys" /\ retried[c] /\ guard[c] = op[c] /\ lastsys[c] = RawErr("EAGAIN")

\* C12: the Connection's handle is closed by exactly one close() call, made
\* when the Connection is released; the close's failure changes no error
\* state; no call of read()/write() is in progress, and no syscall in flight,
\* once the handle has been closed; while the Connection exists its handle
\* is open.
C12_ClosedOnceOnRelease ==
    /\ apc = "released" => (closes = 1 /\ ~conn /\ aerr = "none")
    /\ apc # "released" => closes = 0
    /\ conn => handle \in openfds
    /\ \A c \in Callers :
         pc[c] \in {"lock", "ready", "sys"} =>
             (closes = 0 /\ conn /\ handle \in openfds)

C12_Witness ==
    /\ apc = "released" /\ closes = 1 /\ handle \in openfds
    /\ \E c \in Callers : pc[c] = "done" /\ res[c].tag = "ok"

\* C13: abandoning a call at the gate or at the readiness wait leaves the
\* set of open descriptors, the handle's flags, the Connection and its
\* registration as they were; while the Connection exists its handle is open
\* and non-blocking.
C13_AbandonKeepsHandle ==
    /\ [](conn => (handle \in openfds /\ "O_NONBLOCK" \in flags /\ registered))
    /\ [][\A c \in Callers :
            (pc[c] \in {"lock", "ready"} /\ pc'[c] = "abandoned") =>
                /\ openfds' = openfds /\ flags' = flags
                /\ conn' = conn /\ registered' = registered
                /\ closes' = closes /\ handle' = handle]_vars

C13_Witness ==
    \E c1, c2 \in Callers :
        /\ pc[c1] = "abandoned" /\ guard[c1] = "none"
        /\ pc[c2] = "sys" /\ op[c2] = "read" /\ lastsys[c2] = NoRaw
        /\ conn /\ handle \in openfds /\ "O_NONBLOCK" \in flags

\* C14: none of the three blocking operations of the unprivileged
\* acquisition (spawning the helper, waiting for its exit, the ancillary
\* receive) has run on the scheduler's thread.
C14_BlockingOffReactor == reactorBlocking = {}

\* C15 (as stated): the receive can run while the helper is still running
\* (spawn-and-wait and receive are concurrent), and no socket of the pair is
\* closed while the helper runs or the receive is pending.
C15_SpawnWaitAndReceiveConcurrent ==
    /\ (helper = "spawned" /\ apc = "wait") => ENABLED RecvFd
    /\ (helper = "spawned" \/ apc = "recv") => {"fd0", "fd1"} \subseteq openfds

\* C15 (amended): the steps are sequential: the receive starts only after the
\* helper was seen to exit successfully, never while it runs; the sockets
\* are open while the helper runs and while the receive is pending, and one
\* is closed only after both have finished.
C15_ReceiveAfterHelperExit ==
    /\ helper = "spawned" =>
         /\ ~recvAttempted /\ ~ENABLED RecvFd
         /\ apc = "wait" \/ (apc = "err" /\ aerr = "wait failed")
         /\ {"fd0", "fd1"} \subseteq openfds
    /\ apc = "recv" =>
         (helper = "exit_ok" /\ ~recvAttempted /\ {"fd0", "fd1"} \subseteq openfds)
    /\ recvAttempted => helper = "exit_ok"
    /\ (path = "unpriv" /\ apc # "start" /\ aerr # "socketpair"
          /\ ~({"fd0", "fd1"} \subseteq openfds)) =>
         (helper = "exit_ok" /\ recvAttempted /\ rmsg.status = "ok")

C15_Witness ==
    /\ apc = "close1" /\ helper = "exit_ok" /\ recvAttempted
    /\ "fd0" \notin openfds /\ "fd1" \in openfds

\* C16: a gate is held exactly while a call of its direction is past the
\* gate (waiting for readiness or in its syscall): a call that is idle,
\* waiting for the gate, finished (with a value, a syscall error or a
\* readiness error) or abandoned holds none; a call waiting for a gate that
\* no call in progress holds can take it.
C16_GateReleasedOnEveryExit ==
    /\ \A c \in Callers :
         pc[c] \in {"idle", "lock", "done", "abandoned"} => guard[c] = "none"
    /\ \A d \in Dirs :
         locked[d] <=>
             (\E c \in Callers : pc[c] \in {"ready", "sys"} /\ op[c] = d /\ guard[c] = d)
    /\ \A c \in Callers :
         ( /\ pc[c] = "lock"
           /\ ~\E c2 \in Callers : pc[c2] \in {"ready", "sys"} /\ op[c2] = op[c] )
         => ENABLED Lock(c)

C16_Witness ==
    \E c1, c2 \in Callers :
        /\ pc[c1] = "done" /\ res[c1] = ReadyErr /\ op[c1] = "read"
        /\ pc[c2] = "ready" /\ op[c2] = "read" /\ guard[c2] = "read"

\* C17 (as stated): while the channel has nothing to read, a read() call
\* past the gate never returns.
C17_NeverReturnsWhileWouldBlock ==
    [][\A c \in Callers :
         (op[c] = "read" /\ pc[c] \in {"ready", "sys"} /\ rchan = "empty")
             => pc'[c] # "done"]_vars

\* C17 (amended): under fair scheduling a read() call past the gate ends
\* once the channel has a message, is closed or has failed; a read syscall
\* on an empty channel never ends the call but sends it back to the
\* readiness wait, however often that has happened before; the call returns
\* only the outcome of a syscall made on a non-empty channel, or the
\* readiness wait's own failure.
C17_ReadLoopEndsOnlyOnOutcome ==
    /\ \A c \in Callers :
         (op[c] = "read" /\ pc[c] \in {"ready", "sys"} /\ rchan # "empty")
             ~> (pc[c] \in {"done", "abandoned"})
    /\ [][\A c \in Callers :
            (op[c] = "read" /\ pc[c] = "sys" /\ rchan = "empty") =>
                (pc'[c] = "sys"
                   \/ (pc'[c] = "ready" /\ retried'[c] /\ guard'[c] = "read"))]_vars
    /\ [][\A c \in Callers :
            (op[c] = "read" /\ pc[c] \in {"ready", "sys"} /\ pc'[c] = "done") =>
                \/ pc[c] = "ready" /\ res'[c] = ReadyErr
                \/ /\ pc[c] = "sys" /\ rchan # "empty"
                   /\ res'[c].from = "sys" /\ res'[c].kind # "WouldBlock"]_vars

C17_Witness ==
    \E c \in Callers :
        /\ op[c] = "read" /\ pc[c] = "ready" /\ retried[c] /\ guard[c] = "read"
        /\ rchan = "msg" /\ ~rdy["read"]

\* C18: a successful set_fd_non_blocking leaves the flags equal to the
\* previous flags plus the non-blocking flag, and applying it again changes
\* nothing; when the flag query fails no flag write is issued; when the
\* query or the write fails the flags are unchanged and the acquisition
\* ends with an error and no Connection.
C18_FlagsKeptPlusNonBlock ==
    /\ [](set_fd_non_blocking(flags, "getfl_fail") =
              [ok |-> FALSE, flags |-> flags, setfl |-> FALSE])
    /\ [](aerr = "fcntl failed" => (apc = "err" /\ ~conn /\ ~registered))
    /\ [][apc = "setnb" =>
            /\ apc' \in {"wrap", "err"}
            /\ apc' = "wrap" =>
                 /\ flags' = flags \cup {"O_NONBLOCK"}
                 /\ setflCalled' /\ aerr' = "none"
                 /\ set_fd_non_blocking(flags', "ok").flags = flags'
            /\ apc' = "err" => (flags' = flags /\ aerr' = "fcntl failed")
            /\ ~setflCalled' => (apc' = "err" /\ flags' = flags)]_vars

C18_Witness ==
    /\ apc = "wrap" /\ setflCalled /\ aerr = "none"
    /\ {"O_RDWR", "O_LARGEFILE", "O_APPEND", "O_DIRECT", "O_NONBLOCK"} \subseteq flags

\* C19 (as stated): every kind the error mapping produces is one of
\* not-found, invalid-input, unsupported, other.
C19_KindsInSmallSet ==
    \A i \in 1..Len(eout) :
        eout[i] \in {"NotFound", "InvalidInput", "Unsupported", "Other"}

\* C19 (amended): the mapping keeps the OS error's own kind for Sys(errno)
\* (would-block for EAGAIN, permission-denied for EACCES, not-found for
\* ENOENT, invalid-input for EINVAL, other for EIO), gives other for
\* UnsupportedOperation and invalid-input for InvalidPath and InvalidUtf8;
\* it never produces the kind unsupported.
C19_KindsFollowOsError ==
    /\ Len(eout) <= Len(ein)
    /\ \A i \in 1..Len(eout) :
         /\ ein[i] = "Sys_EAGAIN" <=> eout[i] = "WouldBlock"
         /\ ein[i] = "Sys_EACCES" <=> eout[i] = "PermissionDenied"
         /\ ein[i] = "Sys_ENOENT" <=> eout[i] = "NotFound"
         /\ ein[i] \in {"Sys_EINVAL", "InvalidPath", "InvalidUtf8"} <=> eout[i] = "InvalidInput"
         /\ ein[i] \in {"Sys_EIO", "UnsupportedOperation"} <=> eout[i] = "Other"
         /\ eout[i] # "Unsupported"

C19_Witness ==
    /\ Len(eout) = 2
    /\ ein[1] = "Sys_EAGAIN" /\ eout[1] = "WouldBlock"
    /\ ein[2] = "UnsupportedOperation" /\ eout[2] = "Other"

\* C20 (as stated): the round trip gives back the permission value.
C20_RoundTripIdentity == mback # -1 => mback = mperm

\* C20 (amended): the mode has the kind's type bits and the permission's
\* bits; the round trip gives back the permission with the kind's type bits
\* cleared, a 16-bit value, which is the permission itself exactly when the
\* permission shares no bit with the kind's type bits.
C20_RoundTripClearsTypeBits ==
    /\ mmode # -1 => Bits(mmode) = Bits(KindBits(mkind)) \cup Bits(mperm)
    /\ mback # -1 =>
         /\ mback \in 0..65535
         /\ Bits(mback) = Bits(mperm) \ Bits(KindBits(mkind))
         /\ mback = mperm <=> Bits(mperm) \cap Bits(KindBits(mkind)) = {}

C20_Witness ==
    /\ mkind = "RegularFile" /\ mperm = 32768 + 7
    /\ mmode = 32768 + 7 /\ mback = 7

====
